---- MODULE Spec2Model ----
(***************************************************************************)
(* Model of src/index.js: the /export-reactions slash command of the       *)
(* emoji-count bot.  One handler invocation per interaction; the handler   *)
(* suspends at every awaited collaborator call (reply, deferReply,         *)
(* messages.fetch, users.fetch, editReply) and is resumed when the         *)
(* collaborator settles the call.                                          *)
(*                                                                         *)
(* Strings that the code inspects character by character (the message      *)
(* option, snowflake IDs inside it) are sequences of one-character         *)
(* strings.  Strings that the code only concatenates (emoji names, user    *)
(* names, reply texts) are TLA+ strings.  A JavaScript null/undefined of   *)
(* a string- or boolean-valued slot is the empty sequence <<>>, a present  *)
(* value v is <<v>>.                                                       *)
(***************************************************************************)
EXTENDS Integers, Sequences, FiniteSets, TLC

VARIABLES
  env,          \* process.env: DISCORD_TOKEN and GUILD_ID
  main,         \* where the process is in its start-up
  exitCode,     \* the status the process exited with, if it has
  api,          \* the calls of the process: client.login and rest.put
  apiResults,   \* apiResults[k]: api[k] has settled, TRUE when it resolved
  console,      \* what start-up wrote to the console
  ids,          \* the handler invocations in flight
  interaction,  \* interaction[i]: the interaction event delivered to i
  posted,       \* the target message as the platform holds it
  pc,           \* pc[i]: where invocation i is suspended
  includeIds,   \* line 94
  ref,          \* line 98
  channel,      \* line 99
  message,      \* line 109
  header,       \* line 118
  csv,          \* line 119: the CSV text, a sequence of lines of fields
  reactionIdx,  \* position of the for-of iterator of line 127
  emojiLabel,   \* line 128
  lastId,       \* line 132
  calls,        \* calls[i]: the collaborator calls i has issued, in order
  results       \* results[i][k]: how the collaborator settled calls[i][k]

vars == <<env, main, exitCode, api, apiResults, console, ids, interaction, posted, pc,
          includeIds, ref, channel, message, header, csv, reactionIdx, emojiLabel,
          lastId, calls, results>>

\* the state of the process, which no step of the handler changes
process == <<env, main, exitCode, api, apiResults, console>>

-----------------------------------------------------------------------------
(* Bounds of the model *)

\* most reaction groups on a message
MaxGroups == 2
\* most full pages (of Limit reactors) a message holds over all its groups
MaxFullPages == 1
\* most pieces an input of parseMessageRef is assembled from
MaxPieces == 6

-----------------------------------------------------------------------------
(* Values *)

Null == <<>>
Undefined == -1

Min(a, b) == IF a <= b THEN a ELSE b

\* reply texts (the leading pictograph of each text is left out)
NotInServer == "Use this command inside a server."
MissingChannel == "Provide a channel when using a bare message ID."
ChannelInaccessible == "I cannot access that channel."
MessageFetchFailed == "Could not fetch that message. Check the channel, ID/URL, and my permissions."
ReactionFetchFailed == "Failed to fetch reaction users. Ensure I have **View Channel**, **Read Message History**, and **Read Reactions** permissions."
NoReactions == "That message has no reactions to export."
ExportComplete == "Export complete. Here's your file:"

CommandName == "export-reactions"
AttachmentName == "reactions.csv"
Limit == 100

HeaderWithIds == <<"Emoji", "User", "User ID">>
HeaderNoIds == <<"Emoji", "User">>

-----------------------------------------------------------------------------
(* parseMessageRef: /discord\.com\/channels\/(\d+)\/(\d+)\/(\d+)/ *)

Digit == {"0", "1", "2", "3", "4", "5", "6", "7", "8", "9"}

\* the literal part of the pattern: discord.com/channels/
UrlLiteral == <<"d","i","s","c","o","r","d",".","c","o","m","/",
                "c","h","a","n","n","e","l","s","/">>

\* the length of the longest run of digits of s that starts at p: what a
\* greedy \d+ consumes there (0: \d+ does not match at p)
DigitRun(s, p) ==
  LET stops == {q \in p..Len(s) : s[q] \notin Digit}
  IN IF stops = {} THEN Len(s) + 1 - p
     ELSE (CHOOSE q \in stops : \A r \in stops : q <= r) - p

\* MatchAt with the first capture written (\d) instead of (\d+)
MatchAt_OneDigitGuild(s, p) ==
  LET g  == p + Len(UrlLiteral)
      n1 == IF g <= Len(s) THEN 1 ELSE 0
      c  == g + n1 + 1
      n2 == DigitRun(s, c)
      m  == c + n2 + 1
      n3 == DigitRun(s, m)
  IN IF /\ p + Len(UrlLiteral) - 1 <= Len(s)
        /\ SubSeq(s, p, p + Len(UrlLiteral) - 1) = UrlLiteral
        /\ n1 >= 1 /\ g + n1 <= Len(s) /\ s[g + n1] = "/"
        /\ n2 >= 1 /\ c + n2 <= Len(s) /\ s[c + n2] = "/"
        /\ n3 >= 1
     THEN <<SubSeq(s, g, g + n1 - 1), SubSeq(s, c, c + n2 - 1),
            SubSeq(s, m, m + n3 - 1)>>
     ELSE <<>>

\* the three captures of the pattern matched at position p of s, or <<>>.
\* \d+ is greedy and the next pattern element is "/" (or the end of the
\* pattern), so each capture is the whole digit run.
MatchAt(s, p) ==
  LET g  == p + Len(UrlLiteral)
      n1 == DigitRun(s, g)
      c  == g + n1 + 1
      n2 == DigitRun(s, c)
      m  == c + n2 + 1
      n3 == DigitRun(s, m)
  IN IF /\ p + Len(UrlLiteral) - 1 <= Len(s)
        /\ SubSeq(s, p, p + Len(UrlLiteral) - 1) = UrlLiteral
        /\ n1 >= 1 /\ g + n1 <= Len(s) /\ s[g + n1] = "/"
        /\ n2 >= 1 /\ c + n2 <= Len(s) /\ s[c + n2] = "/"
        /\ n3 >= 1
     THEN <<SubSeq(s, g, g + n1 - 1), SubSeq(s, c, c + n2 - 1),
            SubSeq(s, m, m + n3 - 1)>>
     ELSE <<>>

\* input.match(...): the leftmost match, or <<>> (null)
Match(input) ==
  LET hits == {p \in 1..Len(input) : MatchAt(input, p) # <<>>}
  IN IF hits = {} THEN <<>>
     ELSE MatchAt(input, CHOOSE p \in hits : \A q \in hits : p <= q)

parseMessageRef(input) ==
  LET match == Match(input)
  IN IF match # <<>>
     THEN [guildId |-> match[1], channelId |-> match[2], messageId |-> match[3]]
     ELSE [messageId |-> input]

\* ChannelIdOf reading the wrong property of ref
ChannelIdOf_MessageId(r) == r.messageId

\* ref.channelId: undefined when ref has no such property
ChannelIdOf(r) == IF "channelId" \in DOMAIN r THEN r.channelId ELSE Null

-----------------------------------------------------------------------------
(* The platform: guild, channels, the target message and its reactions *)

Https == <<"h","t","t","p","s",":","/","/">>
Slash == <<"/">>

GuildG == <<"1","0">>
ChanA == <<"2","1">>
ChanB == <<"2","2">>
ChanC == <<"2","3">>
MsgId == <<"3","0">>

\* interaction.guild.channels.cache: the channels the bot has cached
GuildChannels == {ChanA, ChanB}

\* where the target message lives
MsgChannel == ChanA

Url(g, c, m) == Https \o UrlLiteral \o g \o Slash \o c \o Slash \o m

\* a direct-message URL: the guild segment is @me, not a number
DmUrl(c, m) == Https \o UrlLiteral \o <<"@","m","e">> \o Slash \o c \o Slash \o m

\* values of the message option in the handler's specification
RawInputs ==
  { MsgId, Url(GuildG, ChanA, MsgId), Url(GuildG, ChanB, MsgId),
    Url(GuildG, ChanC, MsgId), DmUrl(ChanA, MsgId) }

\* reaction.emoji of the four kinds the platform delivers
CustomEmoji == [name |-> <<"partyblob">>, id |-> <<"999">>]
StandardEmoji == [name |-> <<"thumbsup">>, id |-> Null]
NamelessEmoji == [name |-> Null, id |-> Null]
DeletedEmoji == [name |-> Null, id |-> <<"777">>]
EmojiCycle == <<CustomEmoji, StandardEmoji, NamelessEmoji, DeletedEmoji>>

\* message.reactions.cache is keyed by emoji, so no two groups of a message
\* share an emoji: the groups of a message take consecutive emoji of the
\* cycle, starting anywhere
EmojiAt(off, k) == EmojiCycle[((off + k - 2) % Len(EmojiCycle)) + 1]

\* numbers of reactors of a group: around every page boundary
Remainders == {0, 1, 50}
ReactorCounts == {k * Limit + r : k \in 0..MaxFullPages, r \in Remainders}

RECURSIVE FullPages(_)
FullPages(counts) ==
  IF counts = <<>> THEN 0
  ELSE (Head(counts) \div Limit) + FullPages(Tail(counts))

CountLists(n) ==
  {c \in [1..n -> ReactorCounts] : FullPages(c) <= MaxFullPages}

\* a reaction group: its emoji and the IDs of its reactors in platform order
Reaction(e, n) == [emoji |-> e, users |-> [k \in 1..n |-> k]]

MessagesOf(n) ==
  {[reactions |-> [k \in 1..n |-> Reaction(EmojiAt(off, k), c[k])]] :
     off \in 1..Len(EmojiCycle), c \in CountLists(n)}

Messages == UNION {MessagesOf(n) : n \in 0..MaxGroups}
\* the messages of at most one reaction group
SmallMessages == UNION {MessagesOf(n) : n \in 0..Min(1, MaxGroups)}
NoMessage == [reactions |-> <<>>]

\* the user object of a reactor
User(uid) ==
  [id |-> uid, username |-> "u" \o ToString(uid), discriminator |-> "0"]

\* reaction.users.fetch({limit, after}): the first `limit` reactors whose ID
\* is greater than `after` (all of them when `after` is undefined)
FetchPage(reaction, limit, after) ==
  LET rest == SelectSeq(reaction.users,
                        LAMBDA u : after = Undefined \/ u > after)
  IN [k \in 1..Min(limit, Len(rest)) |-> User(rest[k])]

-----------------------------------------------------------------------------
(* Pure parts of the handler *)

\* `${v}` of a nullable string: null prints as "null"
TemplateStr(v) == IF v = Null THEN "null" ELSE v[1]

\* a string is truthy when it is neither null nor empty
Truthy(v) == v # Null /\ v[1] # ""

\* EmojiLabelOf without the custom-emoji branch
EmojiLabelOf_NameOnly(reaction) ==
  IF reaction.emoji.name # Null THEN reaction.emoji.name[1] ELSE "unknown"

\* lines 128-130
EmojiLabelOf(reaction) ==
  IF Truthy(reaction.emoji.id)
  THEN TemplateStr(reaction.emoji.name) \o ":" \o TemplateStr(reaction.emoji.id)
  ELSE IF reaction.emoji.name # Null THEN reaction.emoji.name[1] ELSE "unknown"

\* IncludeIdsOf written with || in place of ??
IncludeIdsOf_OrTrue(opt) == TRUE

\* line 94: getBoolean('include_user_ids') ?? true
IncludeIdsOf(opt) == IF opt = Null THEN TRUE ELSE opt[1]

\* line 118
HeaderOf(inc) == IF inc THEN HeaderWithIds ELSE HeaderNoIds

\* line 122
TagOf(user) == user.username \o "#" \o user.discriminator

\* lines 121-124: the line addLine appends for (emoji, user)
LineOf(inc, emoji, user) ==
  IF inc THEN <<emoji, TagOf(user), user.id>> ELSE <<emoji, TagOf(user)>>

\* AddLines putting the new lines right after the header, not at the end
AddLines_Prepend(text, inc, emoji, batch) ==
  <<Head(text)>> \o [k \in 1..Len(batch) |-> LineOf(inc, emoji, batch[k])]
                \o Tail(text)

\* line 137: addLine for every user of the batch, in batch order
AddLines(text, inc, emoji, batch) ==
  text \o [k \in 1..Len(batch) |-> LineOf(inc, emoji, batch[k])]

\* line 135: batch.size === 0
EmptyPage(batch) == Len(batch) = 0

\* ShortPage without the test of line 139: only an empty page ends a group
ShortPage_Never(batch) == FALSE

\* line 139: batch.size < 100
ShortPage(batch) == Len(batch) < Limit

\* LastKey taking the first key of the batch, not the last
LastKey_First(batch) == batch[1].id

\* line 138: [...batch.keys()].pop()
LastKey(batch) == batch[Len(batch)].id

\* CacheGet that builds a channel for any ID instead of looking it up
CacheGet_AnyId(id) == id

\* line 105: interaction.guild.channels.cache.get(id)
CacheGet(id) == IF id \in GuildChannels THEN id ELSE Null

-----------------------------------------------------------------------------
(* Collaborator calls *)

ReplyCall(text) ==
  [op |-> "reply", content |-> text, ephemeral |-> TRUE, files |-> <<>>]
\* the deferral without its ephemeral flag
DeferCall_Public == [op |-> "deferReply", ephemeral |-> FALSE]
\* line 96
DeferCall == [op |-> "deferReply", ephemeral |-> TRUE]
MessageFetchCall(ch, id) == [op |-> "messages.fetch", channel |-> ch, id |-> id]
UsersFetchCall(g, after) ==
  [op |-> "users.fetch", group |-> g, limit |-> Limit, after |-> after]
EditCall(text) == [op |-> "editReply", content |-> text, files |-> <<>>]
\* lines 153-154
AttachmentCall(text) ==
  [op |-> "editReply", content |-> ExportComplete,
   files |-> <<[name |-> AttachmentName, data |-> text]>>]

Upd(f, i, v) == [f EXCEPT ![i] = v]
Issue(i, call) == calls' = [calls EXCEPT ![i] = Append(@, call)]

\* the pending call of i settles: resolved (with `size` users, for a page of
\* users) or rejected
Resolved(size) == [ok |-> TRUE, size |-> size]
Rejected == [ok |-> FALSE, size |-> 0]
Settle(i, result) == results' = [results EXCEPT ![i] = Append(@, result)]

-----------------------------------------------------------------------------
(* Interactions *)

Interactions ==
  [type : {"chatInput", "button"},
   commandName : {CommandName, "ping"},
   inGuild : BOOLEAN,
   message : RawInputs,
   channel : {Null, ChanA, ChanB},
   include_user_ids : {Null, <<TRUE>>, <<FALSE>>}]

\* the invocations that reach the export: in a server (or not), message
\* given by URL, no channel option, every value of include_user_ids
ExportInteractions ==
  [type : {"chatInput"},
   commandName : {CommandName},
   inGuild : BOOLEAN,
   message : {Url(GuildG, MsgChannel, MsgId)},
   channel : {Null},
   include_user_ids : {Null, <<TRUE>>, <<FALSE>>}]

\* the pieces the inputs of parseMessageRef are assembled from
Pieces == {UrlLiteral, Slash, <<"1">>, <<"2","3">>, <<"@","m","e">>}

RECURSIVE Flatten(_)
Flatten(ps) == IF ps = <<>> THEN <<>> ELSE Head(ps) \o Flatten(Tail(ps))

\* every string of one to MaxPieces pieces, with or without the scheme
ParseInputs ==
  {pre \o Flatten(ps) :
     pre \in {<<>>, Https},
     ps \in UNION {[1..n -> Pieces] : n \in 1..MaxPieces}}

\* in-server invocations of the command with any such message option
ParseInteractions ==
  [type : {"chatInput"},
   commandName : {CommandName},
   inGuild : {TRUE},
   message : ParseInputs,
   channel : {Null},
   include_user_ids : {Null}]

Solo == {1}

-----------------------------------------------------------------------------
(* Start of the process, lines 16-21, 55-75 and 157-158 *)

\* environment values are strings of characters; an unset variable is Null
Whitespace == {" ", "\t", "\n"}
Tok == <<"t", "k">>
Gid == <<"4", "2">>
Tokens ==
  {Null, <<<<>>>>, <<<<" ">>>>, <<<<"\t", " ">>>>, <<Tok>>,
   <<<<" ">> \o Tok \o <<"\n">>>>, <<<<"t", " ", "k">>>>}
GuildIds == {Null, <<<<>>>>, <<<<" ">>>>, <<Gid>>, <<<<" ">> \o Gid \o <<" ">>>>}
Envs == [DISCORD_TOKEN : Tokens, GUILD_ID : GuildIds]

RECURSIVE TrimStart(_)
TrimStart(s) ==
  IF s # <<>> /\ Head(s) \in Whitespace THEN TrimStart(Tail(s)) ELSE s
RECURSIVE TrimEnd(_)
TrimEnd(s) ==
  IF s # <<>> /\ s[Len(s)] \in Whitespace
  THEN TrimEnd(SubSeq(s, 1, Len(s) - 1)) ELSE s

\* ?.trim() that leaves the value as it is
TrimOpt_Untrimmed(v) == v

\* lines 16-17: ?.trim()
TrimOpt(v) == IF v = Null THEN Null ELSE <<TrimEnd(TrimStart(v[1]))>>

\* lines 18 and 60: an environment string is truthy when set and not empty
TruthyEnv(v) == v # Null /\ v[1] # <<>>

\* line 158
LoginCall(token) == [op |-> "login", token |-> token]

\* the upsert that is always global
UpsertCall_Global(guildId) ==
  [op |-> "rest.put", route |-> "applicationCommands", guildId |-> Null,
   body |-> <<CommandName>>]

\* lines 60-71: the upsert of the command
UpsertCall(guildId) ==
  IF TruthyEnv(guildId)
  THEN [op |-> "rest.put", route |-> "applicationGuildCommands",
        guildId |-> guildId, body |-> <<CommandName>>]
  ELSE [op |-> "rest.put", route |-> "applicationCommands", guildId |-> Null,
        body |-> <<CommandName>>]

\* the client is logged in and delivers events to the handlers
Ready == main \in {"registering", "serving"}

\* the process before line 16
InitProcess ==
  /\ env \in Envs
  /\ main = "boot"
  /\ exitCode = Null
  /\ api = <<>>
  /\ apiResults = <<>>
  /\ console = <<>>

\* the process past its start-up, the command registered globally
InitServing ==
  /\ env = [DISCORD_TOKEN |-> <<Tok>>, GUILD_ID |-> Null]
  /\ main = "serving"
  /\ exitCode = Null
  /\ api = <<LoginCall(<<Tok>>), UpsertCall(Null)>>
  /\ apiResults = <<TRUE, TRUE>>
  /\ console = <<"Logged in", "Registered globally">>

\* lines 16-21 and 158: the module body
Start ==
  /\ main = "boot"
  /\ LET token == TrimOpt(env.DISCORD_TOKEN)
     IN IF ~TruthyEnv(token)
        THEN /\ console' = Append(console, "Missing DISCORD_TOKEN")
             /\ exitCode' = <<1>>
             /\ main' = "exited"
             /\ UNCHANGED api
        ELSE /\ api' = Append(api, LoginCall(token))
             /\ main' = "login"
             /\ UNCHANGED <<console, exitCode>>
  /\ UNCHANGED <<env, apiResults, ids, interaction, posted, pc, includeIds, ref,
                 channel, message, header, csv, reactionIdx, emojiLabel, lastId, calls,
                 results>>

\* line 158 settles; on success ClientReady fires once and its listener
\* (lines 55-71) runs up to rest.put; a rejection is not handled anywhere
LoginSettled ==
  /\ main = "login"
  /\ \E ok \in BOOLEAN :
       /\ apiResults' = Append(apiResults, ok)
       /\ IF ok
          THEN /\ console' = Append(console, "Logged in")
               /\ api' = Append(api, UpsertCall(TrimOpt(env.GUILD_ID)))
               /\ main' = "registering"
          ELSE /\ main' = "loginFailed"
               /\ UNCHANGED <<console, api>>
  /\ UNCHANGED <<env, exitCode, ids, interaction, posted, pc, includeIds, ref,
                 channel, message, header, csv, reactionIdx, emojiLabel, lastId,
                 calls, results>>

\* lines 60-74: rest.put settles
PutSettled ==
  /\ main = "registering"
  /\ \E ok \in BOOLEAN :
       /\ apiResults' = Append(apiResults, ok)
       /\ console' = Append(console,
                            IF ~ok THEN "Failed to register slash command"
                            ELSE IF TruthyEnv(TrimOpt(env.GUILD_ID))
                                 THEN "Registered for guild"
                                 ELSE "Registered globally")
  /\ main' = "serving"
  /\ UNCHANGED <<env, exitCode, api, ids, interaction, posted, pc, includeIds,
                 ref, channel, message, header, csv, reactionIdx, emojiLabel,
                 lastId, calls, results>>

InitLocals ==
  /\ includeIds = [i \in ids |-> TRUE]
  /\ ref = [i \in ids |-> [messageId |-> Null]]
  /\ channel = [i \in ids |-> Null]
  /\ message = [i \in ids |-> NoMessage]
  /\ header = [i \in ids |-> Null]
  /\ csv = [i \in ids |-> Null]
  /\ reactionIdx = [i \in ids |-> 0]
  /\ emojiLabel = [i \in ids |-> ""]
  /\ lastId = [i \in ids |-> Undefined]
  /\ calls = [i \in ids |-> <<>>]
  /\ results = [i \in ids |-> <<>>]

\* every interaction, a target message of at most one reaction group
Init ==
  /\ InitServing
  /\ ids = Solo
  /\ interaction \in [ids -> Interactions]
  /\ posted \in SmallMessages
  /\ pc = [i \in ids |-> "start"]
  /\ InitLocals

\* the target messages with at most one reactor to a group
StartMessages ==
  {m \in SmallMessages :
     \A g \in 1..Len(m.reactions) : Len(m.reactions[g].users) <= 1}

\* every environment, the process at its first line
InitStart ==
  /\ InitProcess
  /\ ids = Solo
  /\ interaction \in [ids -> ExportInteractions]
  /\ posted \in StartMessages
  /\ pc = [i \in ids |-> "start"]
  /\ InitLocals

\* two invocations in flight: with and without the ID column, inside and
\* outside a server, on one message of at most one group
Pair == {1, 2}
PairInteractions ==
  {e \in ExportInteractions : e.include_user_ids # Null}
InitPair ==
  /\ InitServing
  /\ ids = Pair
  /\ interaction \in [ids -> PairInteractions]
  /\ posted \in SmallMessages
  /\ pc = [i \in ids |-> "start"]
  /\ InitLocals

\* the messages of at most two groups whose first emoji is the custom one,
\* every group a whole number of pages or one reactor more
FairMessages ==
  {m \in Messages :
     /\ Len(m.reactions) <= 2
     /\ m.reactions # <<>> => m.reactions[1].emoji = CustomEmoji
     /\ \A g \in 1..Len(m.reactions) : Len(m.reactions[g].users) % Limit <= 1}

InitFair ==
  /\ InitServing
  /\ ids = Solo
  /\ interaction \in [ids -> PairInteractions]
  /\ posted \in FairMessages
  /\ pc = [i \in ids |-> "start"]
  /\ InitLocals

\* the exporting interactions, every target message
InitExport ==
  /\ InitServing
  /\ ids = Solo
  /\ interaction \in [ids -> ExportInteractions]
  /\ posted \in Messages
  /\ pc = [i \in ids |-> "start"]
  /\ InitLocals

-----------------------------------------------------------------------------
(* The InteractionCreate handler, lines 85-155 *)

\* Receive without the server check of lines 88-90
Receive_NoGuildCheck(i) ==
  /\ Ready
  /\ pc[i] = "start"
  /\ LET e == interaction[i]
     IN IF ~(e.type = "chatInput") \/ e.commandName # CommandName
        THEN /\ pc' = Upd(pc, i, "done")
             /\ UNCHANGED <<includeIds, calls>>
        ELSE /\ includeIds' = Upd(includeIds, i, IncludeIdsOf(e.include_user_ids))
             /\ Issue(i, DeferCall)
             /\ pc' = Upd(pc, i, "awaitDefer")
  /\ UNCHANGED <<process, ids, interaction, posted, ref, channel, message, header, csv,
                 reactionIdx, emojiLabel, lastId, results>>

\* lines 85-96: up to the first suspension
Receive(i) ==
  /\ Ready
  /\ pc[i] = "start"
  /\ LET e == interaction[i]
     IN IF ~(e.type = "chatInput") \/ e.commandName # CommandName
        THEN /\ pc' = Upd(pc, i, "done")
             /\ UNCHANGED <<includeIds, calls>>
        ELSE IF ~e.inGuild
        THEN /\ Issue(i, ReplyCall(NotInServer))
             /\ pc' = Upd(pc, i, "awaitReply")
             /\ UNCHANGED includeIds
        ELSE /\ includeIds' = Upd(includeIds, i, IncludeIdsOf(e.include_user_ids))
             /\ Issue(i, DeferCall)
             /\ pc' = Upd(pc, i, "awaitDefer")
  /\ UNCHANGED <<process, ids, interaction, posted, ref, channel, message, header, csv,
                 reactionIdx, emojiLabel, lastId, results>>

\* line 89: the returned reply settles; a rejection rejects the handler
ReplySettled(i) ==
  /\ pc[i] = "awaitReply"
  /\ \E ok \in BOOLEAN :
       /\ pc' = Upd(pc, i, IF ok THEN "done" ELSE "threw")
       /\ Settle(i, IF ok THEN Resolved(0) ELSE Rejected)
  /\ UNCHANGED <<process, ids, interaction, posted, includeIds, ref, channel, message,
                 header, csv, reactionIdx, emojiLabel, lastId, calls>>

\* line 96: deferReply rejects, outside every try
DeferRejected(i) ==
  /\ pc[i] = "awaitDefer"
  /\ pc' = Upd(pc, i, "threw")
  /\ Settle(i, Rejected)
  /\ UNCHANGED <<process, ids, interaction, posted, includeIds, ref, channel, message,
                 header, csv, reactionIdx, emojiLabel, lastId, calls>>

\* ResolveChannel preferring the channel of the URL to the channel option
ResolveChannel_UrlFirst(optChannel, r) ==
  IF ChannelIdOf(r) # Null THEN CacheGet(ChannelIdOf(r)) ELSE optChannel

\* lines 98-107: the channel the message is fetched from, or Null
ResolveChannel(optChannel, r) ==
  IF optChannel # Null THEN optChannel
  ELSE IF ChannelIdOf(r) = Null THEN Null
  ELSE CacheGet(ChannelIdOf(r))

\* lines 96-111: deferReply resolves; parse, resolve the channel, fetch
DeferResolved(i) ==
  /\ pc[i] = "awaitDefer"
  /\ Settle(i, Resolved(0))
  /\ LET r == parseMessageRef(interaction[i].message)
         optChannel == interaction[i].channel
         ch == ResolveChannel(optChannel, r)
     IN /\ ref' = Upd(ref, i, r)
        /\ channel' = Upd(channel, i, ch)
        /\ IF optChannel = Null /\ ChannelIdOf(r) = Null
           THEN /\ Issue(i, EditCall(MissingChannel))
                /\ pc' = Upd(pc, i, "awaitEdit")
           ELSE IF ch = Null
           THEN /\ Issue(i, EditCall(ChannelInaccessible))
                /\ pc' = Upd(pc, i, "awaitEdit")
           ELSE /\ Issue(i, MessageFetchCall(ch, r.messageId))
                /\ pc' = Upd(pc, i, "awaitMessage")
  /\ UNCHANGED <<process, ids, interaction, posted, includeIds, message, header, csv,
                 reactionIdx, emojiLabel, lastId>>

\* MessageFetchRejected replying with the text of the other catch block
MessageFetchRejected_WrongText(i) ==
  /\ pc[i] = "awaitMessage"
  /\ Settle(i, Rejected)
  /\ Issue(i, EditCall(ReactionFetchFailed))
  /\ pc' = Upd(pc, i, "awaitEdit")
  /\ UNCHANGED <<process, ids, interaction, posted, includeIds, ref, channel, message,
                 header, csv, reactionIdx, emojiLabel, lastId>>

\* lines 112-115
MessageFetchRejected(i) ==
  /\ pc[i] = "awaitMessage"
  /\ Settle(i, Rejected)
  /\ Issue(i, EditCall(MessageFetchFailed))
  /\ pc' = Upd(pc, i, "awaitEdit")
  /\ UNCHANGED <<process, ids, interaction, posted, includeIds, ref, channel, message,
                 header, csv, reactionIdx, emojiLabel, lastId>>

\* Finish without the comparison of line 149
Finish_AlwaysAttach(i, text) ==
  /\ Issue(i, AttachmentCall(text))
  /\ pc' = Upd(pc, i, "awaitEdit")
  /\ UNCHANGED <<reactionIdx, emojiLabel, lastId>>

\* lines 149-154: after the loop
Finish(i, text) ==
  /\ IF text = <<header'[i]>>
     THEN Issue(i, EditCall(NoReactions))
     ELSE Issue(i, AttachmentCall(text))
  /\ pc' = Upd(pc, i, "awaitEdit")
  /\ UNCHANGED <<reactionIdx, emojiLabel, lastId>>

\* EnterGroup with lastId declared outside the loop over the groups: the
\* cursor of the group before is carried into the next
EnterGroup_KeepCursor(i, k, text) ==
  /\ csv' = Upd(csv, i, text)
  /\ IF k > Len(message'[i].reactions)
     THEN Finish(i, text)
     ELSE /\ reactionIdx' = Upd(reactionIdx, i, k)
          /\ emojiLabel' = Upd(emojiLabel, i, EmojiLabelOf(message'[i].reactions[k]))
          /\ UNCHANGED lastId
          /\ Issue(i, UsersFetchCall(k, lastId[i]))
          /\ pc' = Upd(pc, i, "awaitUsers")

\* EnterGroup with csv declared outside the handler: one text for every
\* invocation
EnterGroup_SharedCsv(i, k, text) ==
  /\ csv' = [j \in DOMAIN csv |-> text]
  /\ IF k > Len(message'[i].reactions)
     THEN Finish(i, text)
     ELSE /\ reactionIdx' = Upd(reactionIdx, i, k)
          /\ emojiLabel' = Upd(emojiLabel, i, EmojiLabelOf(message'[i].reactions[k]))
          /\ lastId' = Upd(lastId, i, Undefined)
          /\ Issue(i, UsersFetchCall(k, Undefined))
          /\ pc' = Upd(pc, i, "awaitUsers")

\* lines 127-134 and 149-154: the for-of iterator moves to group k; either
\* the first page of group k is requested or the loop is over
EnterGroup(i, k, text) ==
  /\ csv' = Upd(csv, i, text)
  /\ IF k > Len(message'[i].reactions)
     THEN Finish(i, text)
     ELSE /\ reactionIdx' = Upd(reactionIdx, i, k)
          /\ emojiLabel' = Upd(emojiLabel, i, EmojiLabelOf(message'[i].reactions[k]))
          /\ lastId' = Upd(lastId, i, Undefined)
          /\ Issue(i, UsersFetchCall(k, Undefined))
          /\ pc' = Upd(pc, i, "awaitUsers")

\* lines 111-134: the message arrives; build the header, enter the loop
MessageFetchResolved(i) ==
  /\ pc[i] = "awaitMessage"
  /\ channel[i] = MsgChannel
  /\ ref[i].messageId = MsgId
  /\ Settle(i, Resolved(0))
  /\ message' = Upd(message, i, posted)
  /\ header' = Upd(header, i, HeaderOf(includeIds[i]))
  /\ EnterGroup(i, 1, <<header'[i]>>)
  /\ UNCHANGED <<process, ids, interaction, posted, includeIds, ref, channel>>

\* lines 134-140 (and on): a page of users arrives
UsersFetchResolved(i) ==
  /\ pc[i] = "awaitUsers"
  /\ LET k == reactionIdx[i]
         batch == FetchPage(message[i].reactions[k], Limit, lastId[i])
         text == AddLines(csv[i], includeIds[i], emojiLabel[i], batch)
     IN /\ Settle(i, Resolved(Len(batch)))
        /\ UNCHANGED <<message, header>>
        /\ IF EmptyPage(batch)
           THEN EnterGroup(i, k + 1, csv[i])
           ELSE IF ShortPage(batch)
           THEN EnterGroup(i, k + 1, text)
           ELSE /\ csv' = Upd(csv, i, text)
                /\ lastId' = Upd(lastId, i, LastKey(batch))
                /\ Issue(i, UsersFetchCall(k, LastKey(batch)))
                /\ UNCHANGED <<pc, reactionIdx, emojiLabel>>
  /\ UNCHANGED <<process, ids, interaction, posted, includeIds, ref, channel>>

\* UsersFetchRejected sending the rows gathered so far
UsersFetchRejected_PartialCsv(i) ==
  /\ pc[i] = "awaitUsers"
  /\ Settle(i, Rejected)
  /\ IF Len(csv[i]) > 1
     THEN Issue(i, AttachmentCall(csv[i]))
     ELSE Issue(i, EditCall(ReactionFetchFailed))
  /\ pc' = Upd(pc, i, "awaitEdit")
  /\ UNCHANGED <<process, ids, interaction, posted, includeIds, ref, channel, message,
                 header, csv, reactionIdx, emojiLabel, lastId>>

\* UsersFetchRejected with an empty catch block: the handler returns
UsersFetchRejected_Silent(i) ==
  /\ pc[i] = "awaitUsers"
  /\ Settle(i, Rejected)
  /\ pc' = Upd(pc, i, "done")
  /\ UNCHANGED <<process, ids, interaction, posted, includeIds, ref, channel, message,
                 header, csv, reactionIdx, emojiLabel, lastId, calls>>

\* lines 142-147
UsersFetchRejected(i) ==
  /\ pc[i] = "awaitUsers"
  /\ Settle(i, Rejected)
  /\ Issue(i, EditCall(ReactionFetchFailed))
  /\ pc' = Upd(pc, i, "awaitEdit")
  /\ UNCHANGED <<process, ids, interaction, posted, includeIds, ref, channel, message,
                 header, csv, reactionIdx, emojiLabel, lastId>>

\* the final editReply settles; a rejection rejects the handler
EditSettled(i) ==
  /\ pc[i] = "awaitEdit"
  /\ \E ok \in BOOLEAN :
       /\ pc' = Upd(pc, i, IF ok THEN "done" ELSE "threw")
       /\ Settle(i, IF ok THEN Resolved(0) ELSE Rejected)
  /\ UNCHANGED <<process, ids, interaction, posted, includeIds, ref, channel, message,
                 header, csv, reactionIdx, emojiLabel, lastId, calls>>

\* every message option, the handler suspended at its deferral (line 96)
InitParse ==
  /\ InitServing
  /\ ids = Solo
  /\ interaction \in [ids -> ParseInteractions]
  /\ posted = NoMessage
  /\ pc = [i \in ids |-> "awaitDefer"]
  /\ includeIds = [i \in ids |-> TRUE]
  /\ ref = [i \in ids |-> [messageId |-> Null]]
  /\ channel = [i \in ids |-> Null]
  /\ message = [i \in ids |-> NoMessage]
  /\ header = [i \in ids |-> Null]
  /\ csv = [i \in ids |-> Null]
  /\ reactionIdx = [i \in ids |-> 0]
  /\ emojiLabel = [i \in ids |-> ""]
  /\ lastId = [i \in ids |-> Undefined]
  /\ calls = [i \in ids |-> <<DeferCall>>]
  /\ results = [i \in ids |-> <<>>]

\* the step that parses the message option
NextParse == \E i \in ids : DeferResolved(i)

Next ==
  \/ \E i \in ids : Receive(i)
  \/ \E i \in ids : ReplySettled(i)
  \/ \E i \in ids : DeferRejected(i)
  \/ \E i \in ids : DeferResolved(i)
  \/ \E i \in ids : MessageFetchRejected(i)
  \/ \E i \in ids : MessageFetchResolved(i)
  \/ \E i \in ids : UsersFetchResolved(i)
  \/ \E i \in ids : UsersFetchRejected(i)
  \/ \E i \in ids : EditSettled(i)

Spec == Init /\ [][Next]_vars

\* the process from its first line, one interaction delivered once it is ready
NextStart ==
  \/ Start
  \/ LoginSettled
  \/ PutSettled
  \/ \E i \in ids : Receive(i)
  \/ \E i \in ids : ReplySettled(i)
  \/ \E i \in ids : DeferRejected(i)
  \/ \E i \in ids : DeferResolved(i)
  \/ \E i \in ids : MessageFetchRejected(i)
  \/ \E i \in ids : MessageFetchResolved(i)
  \/ \E i \in ids : UsersFetchResolved(i)
  \/ \E i \in ids : UsersFetchRejected(i)
  \/ \E i \in ids : EditSettled(i)

SpecStart == InitStart /\ [][NextStart]_vars

SpecExport == InitExport /\ [][Next]_vars

\* every call that is pending settles in the end, and the continuation of the
\* handler then runs: a step that stays possible is taken
SpecFair == InitFair /\ [][Next]_vars /\ WF_vars(Next)

\* two invocations, every interleaving of their steps
SpecPair == InitPair /\ [][Next]_vars

SpecParse == InitParse /\ [][NextParse]_vars

-----------------------------------------------------------------------------
(* What an observer of the collaborator sees of invocation i *)

CallsOf(i, op) == SelectSeq(calls[i], LAMBDA c : c.op = op)
Fetched(i) == Len(CallsOf(i, "messages.fetch")) + Len(CallsOf(i, "users.fetch")) > 0
LastCall(i) == calls[i][Len(calls[i])]

\* call number k of i has settled, and was rejected
RejectedAt(i, k) == k <= Len(results[i]) /\ ~results[i][k].ok
\* some call `op` of i was rejected
Failed(i, op) ==
  \E k \in 1..Len(calls[i]) : calls[i][k].op = op /\ RejectedAt(i, k)

\* i is an in-server invocation of the command
InServerExport(i) ==
  /\ interaction[i].type = "chatInput"
  /\ interaction[i].commandName = CommandName
  /\ interaction[i].inGuild

\* the handler of i has passed its deferral
PastDeferral(i) == pc[i] \notin {"start", "awaitDefer"} /\ ~Failed(i, "deferReply")

-----------------------------------------------------------------------------
(* Claims *)

\* the message option of i is no URL the pattern recognises
BareRef(i) == "channelId" \notin DOMAIN parseMessageRef(interaction[i].message)

\* C1: an in-server invocation with no channel option and a message option
\* that yields no URL-derived channelId never issues a message fetch or a
\* reaction-user fetch, and once its deferral has resolved the one call it
\* issues is the edit of the deferred reply with the missing-channel text.
C1_MissingChannelContext ==
  \A i \in ids :
    (InServerExport(i) /\ interaction[i].channel = Null /\ BareRef(i)) =>
      /\ ~Fetched(i)
      /\ PastDeferral(i) => calls[i] = <<DeferCall, EditCall(MissingChannel)>>

\* C1 witness: a bare message ID without a channel option, answered
C1_Witness ==
  \E i \in ids :
    /\ InServerExport(i)
    /\ interaction[i].channel = Null
    /\ interaction[i].message = MsgId
    /\ pc[i] = "done"
    /\ LastCall(i) = EditCall(MissingChannel)

\* C2: whenever the message fetch of an invocation was rejected, the only
\* reply edit is the message-fetch-failed text, issued right after the fetch;
\* no reaction-user page is fetched, the CSV holds no row (not even its
\* header) and no edit carries a file.
C2_MessageFetchFailure ==
  \A i \in ids :
    Failed(i, "messages.fetch") =>
      /\ CallsOf(i, "editReply") = <<EditCall(MessageFetchFailed)>>
      /\ calls[i] = <<DeferCall, MessageFetchCall(channel[i], ref[i].messageId),
                      EditCall(MessageFetchFailed)>>
      /\ CallsOf(i, "users.fetch") = <<>>
      /\ csv[i] = Null

\* C2 witness: a message fetch was rejected and the reply went out
C2_Witness ==
  \E i \in ids : Failed(i, "messages.fetch") /\ pc[i] = "done"

\* the export of i ran to its end: the message arrived, no page fetch was
\* rejected, and the final edit has been issued
ExportDone(i) ==
  /\ pc[i] \in {"awaitEdit", "done", "threw"}
  /\ Len(CallsOf(i, "messages.fetch")) = 1
  /\ ~Failed(i, "messages.fetch")
  /\ ~Failed(i, "users.fetch")

RECURSIVE TotalReactors(_)
TotalReactors(rs) ==
  IF rs = <<>> THEN 0 ELSE Len(Head(rs).users) + TotalReactors(Tail(rs))

\* C3: a rejected reaction-user page fetch, at whatever group and page, is
\* the last fetch of the invocation: the one call after it is the edit with
\* the reaction-fetch-failed text, which carries no file.
C3_PageFetchFailureAborts ==
  \A i \in ids : \A k \in 1..Len(calls[i]) :
    (calls[i][k].op = "users.fetch" /\ RejectedAt(i, k)) =>
      /\ Len(calls[i]) = k + 1
      /\ calls[i][k + 1] = EditCall(ReactionFetchFailed)
      /\ calls[i][k + 1].files = <<>>

\* C3 witness: the second page of the second group is rejected after more
\* than a page of rows has been gathered, and the reply went out
C3_Witness ==
  \E i \in ids :
    /\ Failed(i, "users.fetch")
    /\ pc[i] = "done"
    /\ reactionIdx[i] = 2
    /\ lastId[i] # Undefined
    /\ Len(csv[i]) > Limit + 1

\* C4: the final edit of an export that ran to its end carries the file
\* reactions.csv (holding the CSV) exactly when a data row was appended,
\* which is exactly when the message has a reactor; otherwise it is the
\* no-reactions text without a file.
C4_AttachmentIffRows ==
  \A i \in ids :
    ExportDone(i) =>
      LET last == LastCall(i)
          total == TotalReactors(posted.reactions)
      IN /\ last.op = "editReply"
         /\ (last.files # <<>>) <=> (Len(csv[i]) > 1)
         /\ (Len(csv[i]) > 1) <=> (total > 0)
         /\ total = 0 => last = [op |-> "editReply", content |-> NoReactions,
                                 files |-> <<>>]
         /\ total > 0 =>
              last = [op |-> "editReply", content |-> ExportComplete,
                      files |-> <<[name |-> "reactions.csv", data |-> csv[i]]>>]

\* C4 witness: a message whose reaction groups all return no user is
\* answered with the no-reactions text
C4_Witness ==
  \E i \in ids :
    /\ ExportDone(i)
    /\ pc[i] = "done"
    /\ Len(posted.reactions) = 2
    /\ TotalReactors(posted.reactions) = 0
    /\ LastCall(i) = EditCall(NoReactions)

\* the label the documentation gives the rows of an emoji
ExpectedLabel(e) ==
  CASE e = CustomEmoji -> "partyblob:999"
    [] e = StandardEmoji -> "thumbsup"
    [] e = NamelessEmoji -> "unknown"
    [] e = DeletedEmoji -> "null:777"

\* the data row of (emoji e, reactor uid), with or without the ID column
ExpectedLine(withIds, e, uid) ==
  IF withIds
  THEN <<ExpectedLabel(e), "u" \o ToString(uid) \o "#0", uid>>
  ELSE <<ExpectedLabel(e), "u" \o ToString(uid) \o "#0">>

\* include_user_ids as the invoking user gave it: false only when set to false
WithIds(i) == interaction[i].include_user_ids # <<FALSE>>

ExpectedLines(i) ==
  UNION {{ExpectedLine(WithIds(i), posted.reactions[g].emoji,
                       posted.reactions[g].users[u]) :
            u \in 1..Len(posted.reactions[g].users)} :
         g \in 1..Len(posted.reactions)}

\* C5: when the export ran to its end, the data rows of the CSV are in
\* one-to-one correspondence with the (group, reactor) pairs of the message:
\* as many rows as pairs, all different, each the row of a pair.
C5_OneRowPerPair ==
  \A i \in ids :
    ExportDone(i) =>
      LET rows == Tail(csv[i])
          rowSet == {rows[k] : k \in 1..Len(rows)}
      IN /\ Len(rows) = TotalReactors(posted.reactions)
         /\ Cardinality(rowSet) = Len(rows)
         /\ rowSet = ExpectedLines(i)

\* C5 witness: two groups, one of exactly one full page, exported
C5_Witness ==
  \E i \in ids :
    /\ ExportDone(i)
    /\ pc[i] = "done"
    /\ Len(posted.reactions) = 2
    /\ Len(posted.reactions[1].users) = 100
    /\ Len(posted.reactions[2].users) = 50
    /\ Len(csv[i]) = 151

\* the positions in calls[i] of the page fetches of group g
FetchesOf(i, g) ==
  {k \in 1..Len(calls[i]) : calls[i][k].op = "users.fetch" /\ calls[i][k].group = g}

\* group g of i has been left by the loop without a rejected fetch
GroupDrained(i, g) ==
  /\ ~Failed(i, "users.fetch")
  /\ \/ reactionIdx[i] > g
     \/ reactionIdx[i] = g /\ pc[i] \in {"awaitEdit", "done", "threw"}

\* C6: for a group of N reactors the exporter issues at most N div 100 + 1
\* page fetches, exactly that many once the group is drained; the first
\* N div 100 pages hold 100 users and the last holds N mod 100 (it may be
\* empty), so no fetch follows a page of fewer than 100 users.
C6_PageFetchCount ==
  \A i \in ids : \A g \in 1..Len(message[i].reactions) :
    LET n == Len(message[i].reactions[g].users)
        idx == FetchesOf(i, g)
    IN /\ Cardinality(idx) <= (n \div 100) + 1
       /\ GroupDrained(i, g) => Cardinality(idx) = (n \div 100) + 1
       /\ \A k \in idx :
            (k <= Len(results[i]) /\ results[i][k].ok) =>
              results[i][k].size =
                IF Cardinality({j \in idx : j <= k}) <= n \div 100
                THEN 100 ELSE n % 100

\* C6 witness: one group of 150 reactors: two fetches, of 100 then 50 users,
\* and 150 rows under one label
C6_Witness ==
  \E i \in ids :
    /\ pc[i] = "done"
    /\ Len(message[i].reactions) = 1
    /\ Len(message[i].reactions[1].users) = 150
    /\ CallsOf(i, "users.fetch") = <<UsersFetchCall(1, Undefined), UsersFetchCall(1, 100)>>
    /\ results[i][3].size = 100
    /\ results[i][4].size = 50
    /\ Len(csv[i]) = 151
    /\ \A k \in 2..151 : csv[i][k][1] = csv[i][2][1]

\* the group of message m whose rows carry the label of `line`
GroupOfLine(m, line) ==
  CHOOSE g \in 1..Len(m.reactions) : ExpectedLabel(m.reactions[g].emoji) = line[1]

\* the data rows of `text` are grouped, in the order of the groups of m
Grouped(m, text) ==
  \A k \in 2..(Len(text) - 1) :
    GroupOfLine(m, text[k]) <= GroupOfLine(m, text[k + 1])

IsPrefix(a, b) == Len(a) <= Len(b) /\ SubSeq(b, 1, Len(a)) = a

\* the page fetches go through the groups in order, and the first fetch of
\* a group comes only after a page of fewer than 100 users of the group before
Drained(cs, rs) ==
  \A k \in 1..(Len(cs) - 1) :
    (cs[k].op = "users.fetch" /\ cs[k + 1].op = "users.fetch") =>
      \/ cs[k + 1].group = cs[k].group
      \/ cs[k + 1].group = cs[k].group + 1 /\ rs[k].ok /\ rs[k].size < 100

\* C7: in every step the CSV only grows at its end, and after the step its
\* data rows are grouped in the iteration order of the message's reaction
\* groups: no row of an earlier group follows a row of a later group; and a
\* group's first page is fetched only when the group before it is drained.
C7_GroupsContiguous ==
  [][\A i \in ids :
       /\ IsPrefix(csv[i], csv'[i])
       /\ Grouped(message'[i], csv'[i])
       /\ Drained(calls'[i], results'[i])]_vars

\* C7 witness: rows of two groups (1 reactor, then 50) in one exported CSV
C7_Witness ==
  \E i \in ids :
    /\ pc[i] = "done"
    /\ Len(message[i].reactions) = 2
    /\ Len(csv[i]) = 52
    /\ GroupOfLine(message[i], csv[i][2]) = 1
    /\ \A k \in 3..52 : GroupOfLine(message[i], csv[i][k]) = 2

\* C8: the header row is Emoji,User,User ID when include_user_ids is true or
\* absent and Emoji,User when it is false; every data row has as many
\* columns as the header, the third being the user's ID; and the file sent
\* holds exactly this text.
C8_HeaderAndColumns ==
  \A i \in ids :
    csv[i] # Null =>
      /\ csv[i][1] = IF interaction[i].include_user_ids \in {Null, <<TRUE>>}
                     THEN <<"Emoji", "User", "User ID">>
                     ELSE <<"Emoji", "User">>
      /\ \A k \in 2..Len(csv[i]) :
           /\ Len(csv[i][k]) = Len(csv[i][1])
           /\ Len(csv[i][k]) = 3 => csv[i][k][3] \in Nat
      /\ \A k \in 1..Len(calls[i]) :
           (calls[i][k].op = "editReply" /\ calls[i][k].files # <<>>) =>
             calls[i][k].files[1].data = csv[i]

\* C8 witness: include_user_ids absent, a CSV with data rows sent
C8_Witness ==
  \E i \in ids :
    /\ interaction[i].include_user_ids = Null
    /\ pc[i] = "done"
    /\ LastCall(i).files # <<>>
    /\ Len(csv[i]) > 1
    /\ csv[i][1] = <<"Emoji", "User", "User ID">>
    /\ Len(csv[i][2]) = 3

\* the number of reactors of the groups of rs before group g
RECURSIVE ReactorsBefore(_, _)
ReactorsBefore(rs, g) ==
  IF g <= 1 THEN 0 ELSE Len(rs[g - 1].users) + ReactorsBefore(rs, g - 1)

\* C9: every row of a group carries the group's label: name:id for an emoji
\* with an ID (partyblob:999; null:777 when the platform gives no name), the
\* name for one without an ID, unknown for one with neither.  The rows of
\* group g are the rows after those of the groups before it.
C9_EmojiLabel ==
  \A i \in ids : \A g \in 1..Len(message[i].reactions) :
    LET before == ReactorsBefore(message[i].reactions, g)
        n == Len(message[i].reactions[g].users)
        label == ExpectedLabel(message[i].reactions[g].emoji)
    IN \A k \in (before + 2)..Min(before + n + 1, Len(csv[i])) :
         csv[i][k][1] = label

\* C9 witness: 50 rows of the custom emoji, all labelled partyblob:999
C9_Witness ==
  \E i \in ids :
    /\ pc[i] = "done"
    /\ Len(message[i].reactions) >= 1
    /\ message[i].reactions[1].emoji = CustomEmoji
    /\ Len(message[i].reactions[1].users) = 50
    /\ \A k \in 2..51 : csv[i][k][1] = "partyblob:999"

AllDigits(t) == t # <<>> /\ \A k \in 1..Len(t) : t[k] \in Digit

\* s without the scheme, when it starts with it
SchemeStripped(s) ==
  IF Len(s) >= Len(Https) /\ SubSeq(s, 1, Len(Https)) = Https
  THEN SubSeq(s, Len(Https) + 1, Len(s)) ELSE s

\* the part of a message URL after discord.com/channels/, or <<>>
UrlPath(s) ==
  LET t == SchemeStripped(s)
  IN IF Len(t) > Len(UrlLiteral) /\ SubSeq(t, 1, Len(UrlLiteral)) = UrlLiteral
     THEN SubSeq(t, Len(UrlLiteral) + 1, Len(t)) ELSE <<>>

\* the segments of a path with exactly two slashes, or <<>>
Segments(path) ==
  LET cuts == {p \in 1..Len(path) : path[p] = "/"}
  IN IF Cardinality(cuts) # 2 THEN <<>>
     ELSE LET p1 == CHOOSE p \in cuts : \A q \in cuts : p <= q
              p2 == CHOOSE p \in cuts : \A q \in cuts : p >= q
          IN <<SubSeq(path, 1, p1 - 1), SubSeq(path, p1 + 1, p2 - 1),
               SubSeq(path, p2 + 1, Len(path))>>

\* s is a message URL of the platform: [https://]discord.com/channels/
\* followed by three numeric IDs separated by slashes
IsMessageUrl(s) ==
  LET seg == Segments(UrlPath(s))
  IN seg # <<>> /\ \A k \in 1..3 : AllDigits(seg[k])

\* C10: once the handler has parsed the message option, ref is exactly
\* {guildId, channelId, messageId}, the three numeric segments, when the
\* option is a message URL, and exactly {messageId}, the option itself, when
\* the option is a string of digits.
C10_ParseMessageRef ==
  \A i \in ids :
    pc[i] # "awaitDefer" =>
      LET raw == interaction[i].message
          seg == Segments(UrlPath(raw))
      IN /\ IsMessageUrl(raw) =>
              /\ DOMAIN ref[i] = {"guildId", "channelId", "messageId"}
              /\ ref[i].guildId = seg[1]
              /\ ref[i].channelId = seg[2]
              /\ ref[i].messageId = seg[3]
         /\ AllDigits(raw) =>
              /\ DOMAIN ref[i] = {"messageId"}
              /\ ref[i].messageId = raw

\* C10 witness: a URL with scheme and a two-digit guild ID, parsed
C10_Witness ==
  \E i \in ids :
    /\ pc[i] # "awaitDefer"
    /\ interaction[i].message =
         Https \o UrlLiteral \o <<"2","3">> \o Slash \o <<"1">> \o Slash \o <<"2","3">>
    /\ ref[i] = [guildId |-> <<"2","3">>, channelId |-> <<"1">>,
                 messageId |-> <<"2","3">>]

\* i is a chat-input command named export-reactions
Matching(i) ==
  interaction[i].type = "chatInput" /\ interaction[i].commandName = "export-reactions"

\* C11: an interaction that is not a chat-input command named
\* export-reactions never issues a call (no reply, no deferral, no fetch); a
\* matching command outside a server issues, as soon as it is handled, exactly
\* one call, the ephemeral not-in-server reply, and no other call ever.
C11_ValidationShortCircuits ==
  \A i \in ids :
    /\ ~Matching(i) => calls[i] = <<>> /\ pc[i] \in {"start", "done"}
    /\ (Matching(i) /\ ~interaction[i].inGuild) =>
         IF pc[i] = "start" THEN calls[i] = <<>>
         ELSE calls[i] = <<[op |-> "reply",
                            content |-> "Use this command inside a server.",
                            ephemeral |-> TRUE, files |-> <<>>]>>

\* C11 witness: the command invoked outside a server, answered
C11_Witness ==
  \E i \in ids :
    /\ Matching(i) /\ ~interaction[i].inGuild
    /\ pc[i] = "done"
    /\ Len(calls[i]) = 1 /\ calls[i][1].op = "reply"

\* the channel ID the message option names, when it is a message URL
UrlChannel(i) == Segments(UrlPath(interaction[i].message))[2]

\* C12: every message fetch goes to the channel option when one is given,
\* whatever channel the URL names, and is issued as soon as the deferral has
\* resolved; without a channel option it goes to the channel of the URL,
\* which is then a channel of the guild cache.
C12_ExplicitChannelPreferred ==
  \A i \in ids :
    /\ \A k \in 1..Len(calls[i]) :
         calls[i][k].op = "messages.fetch" =>
           IF interaction[i].channel # Null
           THEN calls[i][k].channel = interaction[i].channel
           ELSE /\ IsMessageUrl(interaction[i].message)
                /\ UrlChannel(i) \in GuildChannels
                /\ calls[i][k].channel = UrlChannel(i)
    /\ (InServerExport(i) /\ PastDeferral(i) /\ interaction[i].channel # Null) =>
         /\ Len(calls[i]) >= 2
         /\ calls[i][2].op = "messages.fetch"
         /\ calls[i][2].channel = interaction[i].channel

\* C12 witness: a channel option and a URL naming another channel; the
\* message is fetched from the channel of the option
C12_Witness ==
  \E i \in ids :
    /\ interaction[i].channel = ChanA
    /\ interaction[i].message = Url(GuildG, ChanB, MsgId)
    /\ Len(calls[i]) >= 2
    /\ calls[i][2] = MessageFetchCall(ChanA, MsgId)
    /\ pc[i] = "done"

\* neither the channel option nor the channel ID of the URL gives a channel
Unresolved(i) ==
  /\ InServerExport(i)
  /\ interaction[i].channel = Null
  /\ \/ ~IsMessageUrl(interaction[i].message)
     \/ UrlChannel(i) \notin GuildChannels

\* C13 as claimed: whenever neither resolves, the edit is the
\* provide-a-channel text and no message is fetched.
C13_AlwaysProvideAChannel ==
  \A i \in ids :
    (Unresolved(i) /\ PastDeferral(i)) =>
      /\ calls[i] = <<DeferCall, EditCall(MissingChannel)>>
      /\ ~Fetched(i)

\* C13 amended: whenever neither resolves, no message is fetched and the one
\* edit of the deferred reply is an error text: provide-a-channel when the
\* message option yields no channel ID, cannot-access-that-channel when the
\* channel ID of the URL is not in the guild channel cache.
C13_UnresolvedChannel ==
  \A i \in ids :
    Unresolved(i) =>
      /\ ~Fetched(i)
      /\ PastDeferral(i) =>
           calls[i] = <<DeferCall,
                        [op |-> "editReply", files |-> <<>>,
                         content |-> IF IsMessageUrl(interaction[i].message)
                                     THEN "I cannot access that channel."
                                     ELSE "Provide a channel when using a bare message ID."]>>

\* C13 witness: a URL whose channel is not cached, answered
C13_Witness ==
  \E i \in ids :
    /\ Unresolved(i)
    /\ interaction[i].message = Url(GuildG, ChanC, MsgId)
    /\ pc[i] = "done"
    /\ LastCall(i) = EditCall(ChannelInaccessible)

\* the fixed error messages of the handler
ErrorTexts ==
  {NotInServer, MissingChannel, ChannelInaccessible, MessageFetchFailed,
   ReactionFetchFailed}

\* C14: no invocation ends in an uncaught failure; every rejected
\* collaborator call is followed at once by a reply edit carrying one of the
\* fixed error messages; every invocation of the command that has ended has a
\* last call that is a reply or a reply edit, and that call went through.
C14_EveryFailureSurfaced ==
  \A i \in ids :
    /\ pc[i] # "threw"
    /\ \A k \in 1..Len(calls[i]) :
         RejectedAt(i, k) =>
           /\ k < Len(calls[i])
           /\ calls[i][k + 1].op = "editReply"
           /\ calls[i][k + 1].content \in ErrorTexts
    /\ (Matching(i) /\ pc[i] = "done") =>
         /\ LastCall(i).op \in {"reply", "editReply"}
         /\ ~RejectedAt(i, Len(calls[i]))

\* an environment string of whitespace only (the empty string included)
Blank(s) == \A k \in 1..Len(s) : s[k] \in Whitespace
\* an environment variable that is set to more than whitespace
Configured(v) == v # Null /\ ~Blank(v[1])
\* a string that is not blank, without the whitespace around it
Stripped(s) ==
  LET ink == {k \in 1..Len(s) : s[k] \notin Whitespace}
      a == CHOOSE k \in ink : \A j \in ink : k <= j
      b == CHOOSE k \in ink : \A j \in ink : k >= j
  IN SubSeq(s, a, b)

\* the upserts of the command the process has attempted
Puts == SelectSeq(api, LAMBDA c : c.op = "rest.put")

\* C15: the process has attempted exactly one upsert of the command once its
\* login has succeeded and none before; the upsert goes to the guild route of
\* the configured guild when GUILD_ID is configured and to the global route
\* otherwise; when the upsert has failed, the failure is on the console, the
\* process has not exited and the handler takes the next interaction.
C15_OneUpsertPerLogin ==
  /\ Len(Puts) = IF main \in {"registering", "serving"} THEN 1 ELSE 0
  /\ \A k \in 1..Len(api) :
       api[k].op = "rest.put" =>
         /\ k > 1 /\ api[k - 1].op = "login" /\ apiResults[k - 1]
         /\ api[k].body = <<"export-reactions">>
         /\ IF Configured(env.GUILD_ID)
            THEN /\ api[k].route = "applicationGuildCommands"
                 /\ api[k].guildId = <<Stripped(env.GUILD_ID[1])>>
            ELSE api[k].route = "applicationCommands"
         /\ (k <= Len(apiResults) /\ ~apiResults[k]) =>
              /\ console[Len(console)] = "Failed to register slash command"
              /\ exitCode = Null
              /\ main = "serving"
              /\ \A i \in ids : pc[i] = "start" => ENABLED Receive(i)

\* C15 witness: GUILD_ID configured, the upsert to the guild failed, and an
\* interaction delivered afterwards has been served to its end
C15_Witness ==
  /\ Configured(env.GUILD_ID)
  /\ Len(apiResults) = 2 /\ ~apiResults[2]
  /\ api[2].route = "applicationGuildCommands"
  /\ \E i \in ids : pc[i] = "done" /\ LastCall(i).op = "editReply"

\* C16: with DISCORD_TOKEN unset, empty or whitespace only, the process
\* never logs in, never registers the command and never handles an
\* interaction, and once it has left its first line it has exited with a
\* status that is not zero.
C16_NoTokenExits ==
  (env.DISCORD_TOKEN = Null \/ Blank(env.DISCORD_TOKEN[1])) =>
    /\ api = <<>>
    /\ \A i \in ids : pc[i] = "start" /\ calls[i] = <<>> /\ ~ENABLED Receive(i)
    /\ main \in {"boot", "exited"}
    /\ main = "boot" => ENABLED Start
    /\ main = "exited" => exitCode # Null /\ exitCode[1] # 0

\* C16 witness: a token of whitespace only, the process exited with status 1
C16_Witness ==
  /\ env.DISCORD_TOKEN = <<<<"\t", " ">>>>
  /\ main = "exited"
  /\ exitCode = <<1>>

\* the CSV invocation i produces on its own: the header, then the rows of
\* every group in message order, the reactors of a group in platform order
RECURSIVE SoloRows(_, _)
SoloRows(i, g) ==
  IF g > Len(posted.reactions) THEN <<>>
  ELSE [u \in 1..Len(posted.reactions[g].users) |->
          ExpectedLine(WithIds(i), posted.reactions[g].emoji,
                       posted.reactions[g].users[u])]
       \o SoloRows(i, g + 1)
SoloCsv(i) ==
  <<IF WithIds(i) THEN <<"Emoji", "User", "User ID">> ELSE <<"Emoji", "User">>>>
  \o SoloRows(i, 1)

\* the final reply invocation i produces on its own, given how the
\* collaborator settled the calls of i
SoloReply(i) ==
  IF ~interaction[i].inGuild THEN ReplyCall(NotInServer)
  ELSE IF Unresolved(i)
  THEN EditCall(IF IsMessageUrl(interaction[i].message)
                THEN ChannelInaccessible ELSE MissingChannel)
  ELSE IF Failed(i, "messages.fetch") THEN EditCall(MessageFetchFailed)
  ELSE IF Failed(i, "users.fetch") THEN EditCall(ReactionFetchFailed)
  ELSE IF SoloRows(i, 1) = <<>> THEN EditCall(NoReactions)
  ELSE [op |-> "editReply", content |-> ExportComplete,
        files |-> <<[name |-> AttachmentName, data |-> SoloCsv(i)]>>]

\* C17: whatever the other invocations in flight do, the final reply of an
\* invocation is the reply it produces on its own from its interaction, the
\* message and the outcomes of its own calls, and the CSV of a finished
\* export is the CSV it produces on its own; an invocation whose deferral
\* was rejected issues nothing further.
C17_Isolation ==
  \A i \in ids :
    /\ (Matching(i) /\ pc[i] \in {"awaitReply", "awaitEdit", "done", "threw"}) =>
         IF Failed(i, "deferReply") THEN calls[i] = <<DeferCall>>
         ELSE LastCall(i) = SoloReply(i)
    /\ ExportDone(i) => csv[i] = SoloCsv(i)

\* C17 witness: one invocation has delivered its attachment while another,
\* started before that and asking for other columns, is between two pages
C17_Witness ==
  \E i, j \in ids :
    /\ i # j
    /\ WithIds(i) # WithIds(j)
    /\ pc[i] = "done" /\ LastCall(i).files # <<>>
    /\ pc[j] = "awaitUsers" /\ Len(csv[j]) > 1

\* C18: an in-server invocation of the command issues nothing before it is
\* handled; from then on its first call is the ephemeral deferral, which it
\* issues once only, so every message fetch, page fetch and reply edit comes
\* after the deferral.
C18_DeferralFirstAndOnce ==
  \A i \in ids :
    InServerExport(i) =>
      /\ pc[i] = "start" => calls[i] = <<>>
      /\ pc[i] # "start" =>
           /\ calls[i][1] = [op |-> "deferReply", ephemeral |-> TRUE]
           /\ Len(CallsOf(i, "deferReply")) = 1
      /\ \A k \in 1..Len(calls[i]) :
           calls[i][k].op \in {"messages.fetch", "users.fetch", "editReply"} =>
             \E d \in 1..(k - 1) : calls[i][d].op = "deferReply"

\* C18 witness: an export that fetched the message and a page of users and
\* edited its reply, all after its one deferral
C18_Witness ==
  \E i \in ids :
    /\ InServerExport(i)
    /\ pc[i] = "done"
    /\ Len(CallsOf(i, "messages.fetch")) = 1
    /\ Len(CallsOf(i, "users.fetch")) >= 1
    /\ LastCall(i).op = "editReply"
    /\ calls[i][1].op = "deferReply"

\* the number of users the page fetches of group g before call k returned
RECURSIVE DeliveredBefore(_, _, _)
DeliveredBefore(i, g, k) ==
  IF k <= 1 THEN 0
  ELSE DeliveredBefore(i, g, k - 1)
       + IF calls[i][k - 1].op = "users.fetch" /\ calls[i][k - 1].group = g
         THEN results[i][k - 1].size ELSE 0

\* C19: an invocation has at most one call that has not settled, so its page
\* fetches are made one after the other; the first page fetch of a group
\* carries no `after`; every later page fetch of the group follows directly
\* a page fetch of the same group that returned users, and carries as `after`
\* the ID of the last user of that page.
C19_CursorPerGroup ==
  \A i \in ids :
    /\ Len(calls[i]) <= Len(results[i]) + 1
    /\ \A k \in 1..Len(calls[i]) :
         calls[i][k].op = "users.fetch" =>
           LET g == calls[i][k].group
               n == DeliveredBefore(i, g, k)
           IN IF \A j \in 1..(k - 1) :
                   ~(calls[i][j].op = "users.fetch" /\ calls[i][j].group = g)
              THEN calls[i][k].after = -1
              ELSE /\ calls[i][k - 1].op = "users.fetch"
                   /\ calls[i][k - 1].group = g
                   /\ results[i][k - 1].ok
                   /\ results[i][k - 1].size > 0
                   /\ n <= Len(posted.reactions[g].users)
                   /\ calls[i][k].after = posted.reactions[g].users[n]

\* C19 witness: a second group is being read after a first group of more
\* than one page: the call log holds a fetch with a cursor, then a fetch of
\* the next group without one
C19_Witness ==
  \E i \in ids : \E k \in 2..Len(calls[i]) :
    /\ calls[i][k].op = "users.fetch" /\ calls[i][k].group = 2
    /\ calls[i][k].after = -1
    /\ calls[i][k - 1].op = "users.fetch" /\ calls[i][k - 1].group = 1
    /\ calls[i][k - 1].after = 100

\* the reply edits of i, and i at the end of its handler
Edits(i) == Len(CallsOf(i, "editReply"))
Ended(i) == pc[i] \in {"done", "threw"}

\* C20: when every pending call settles in the end, an in-server invocation
\* whose deferral has resolved always reaches the end of its handler having
\* issued exactly one reply edit, and at no time has it issued more than one:
\* the loop over the pages of a group ends.
C20_Terminates ==
  /\ \A i \in Solo :
       (InServerExport(i) /\ PastDeferral(i)) ~> (Ended(i) /\ Edits(i) = 1)
  /\ [](\A i \in Solo : Edits(i) <= 1)

\* C20 witness: an export of two groups, one of more than a page, at its end
\* with its one reply edit
C20_Witness ==
  \E i \in ids :
    /\ InServerExport(i)
    /\ Ended(i)
    /\ Edits(i) = 1
    /\ Len(CallsOf(i, "users.fetch")) >= 3
    /\ reactionIdx[i] = 2

====
